---- MODULE Spec2Model ----
(***************************************************************************)
(* AST based analysis of expressions (brian2/parsing/expressions.py):      *)
(* is_boolean_expression, _get_value_from_expression and                   *)
(* parse_expression_dimensions, modelled as pure recursive operators over  *)
(* expression trees and a table of variable and function descriptors.      *)
(***************************************************************************)
EXTENDS Integers, Sequences, FiniteSets, TLC

(***************************************************************************)
(* Bounds of the input space.                                              *)
(***************************************************************************)
\* numeric literals range over 0..MaxNum
MaxNum == 2
\* comparison chains and and/or chains have 2..MaxChain operands
MaxChain == 3

(***************************************************************************)
(* Exact rational numbers <<numerator, denominator>>, denominator > 0, in  *)
(* lowest terms.  They carry Python's numbers and the exponents of a       *)
(* Dimension.                                                              *)
(***************************************************************************)
Abs(i) == IF i < 0 THEN -i ELSE i

RECURSIVE GCD(_, _)
GCD(a, b) == IF b = 0 THEN a ELSE GCD(b, a % b)

Norm(n, d) ==
    LET g == GCD(Abs(n), d)
    IN  <<n \div g, d \div g>>

Rat(n, d) == IF d < 0 THEN Norm(-n, -d) ELSE Norm(n, d)

RInt(i) == <<i, 1>>
RAdd(a, b) == Rat(a[1] * b[2] + b[1] * a[2], a[2] * b[2])
RNeg(a) == <<-a[1], a[2]>>
RSub(a, b) == RAdd(a, RNeg(b))
RMul(a, b) == Rat(a[1] * b[1], a[2] * b[2])
RDiv(a, b) == Rat(a[1] * b[2], a[2] * b[1])
RFloor(a) == a[1] \div a[2]
RIsInt(a) == a[2] = 1

RECURSIVE RPowNat(_, _)
RPowNat(a, k) == IF k = 0 THEN RInt(1) ELSE RMul(a, RPowNat(a, k - 1))

(***************************************************************************)
(* Python numbers: a rational value q and whether the object is a float.   *)
(* The outcome of an arithmetic operator is a result record: st = "ok"     *)
(* with the number in val, or st = "err" with the exception class in err.  *)
(***************************************************************************)
PyInt(i) == [q |-> RInt(i), f |-> FALSE]
PyFloat(i) == [q |-> RInt(i), f |-> TRUE]
NoNum == PyInt(0)

ValOk(v) == [st |-> "ok", val |-> v, err |-> "", msg |-> ""]
ValErr(e, m) == [st |-> "err", val |-> NoNum, err |-> e, msg |-> m]
ValNone == [st |-> "none", val |-> NoNum, err |-> "", msg |-> ""]

PyAdd(l, r) == ValOk([q |-> RAdd(l.q, r.q), f |-> l.f \/ r.f])
PyMul(l, r) == ValOk([q |-> RMul(l.q, r.q), f |-> l.f \/ r.f])

\* l / r.  The module imports no division from __future__ and is written for
\* Python 2 (basestring), where two ints divide by floor.
PyDiv(l, r) ==
    IF r.q[1] = 0
    THEN ValErr("ZeroDivisionError", "division by zero")
    ELSE IF ~l.f /\ ~r.f
         THEN ValOk(PyInt(RFloor(RDiv(l.q, r.q))))
         ELSE ValOk([q |-> RDiv(l.q, r.q), f |-> TRUE])

\* l % r = l - r * floor(l / r)
PyMod(l, r) ==
    IF r.q[1] = 0
    THEN ValErr("ZeroDivisionError", "modulo by zero")
    ELSE ValOk([q |-> RSub(l.q, RMul(r.q, RInt(RFloor(RDiv(l.q, r.q))))),
                f |-> l.f \/ r.f])

\* l ** r for an integral exponent; a negative exponent gives a float
PyPow(l, r) ==
    IF ~RIsInt(r.q)
    THEN ValErr("Unmodelled", "fractional exponent")
    ELSE IF r.q[1] >= 0
         THEN ValOk([q |-> RPowNat(l.q, r.q[1]), f |-> l.f \/ r.f])
         ELSE IF l.q[1] = 0
              THEN ValErr("ZeroDivisionError", "0 to a negative power")
              ELSE ValOk([q |-> RDiv(RInt(1), RPowNat(l.q, -r.q[1])), f |-> TRUE])

PyNeg(v) == [q |-> RNeg(v.q), f |-> v.f]

(***************************************************************************)
(* Dimensions: the exponents of the base quantities (here length, time).   *)
(***************************************************************************)
Dim(l, t) == <<RInt(l), RInt(t)>>
DIMENSIONLESS == Dim(0, 0)
LENGTH == Dim(1, 0)
TIME == Dim(0, 1)

multiply(a, b) == <<RAdd(a[1], b[1]), RAdd(a[2], b[2])>>
divide(a, b) == <<RSub(a[1], b[1]), RSub(a[2], b[2])>>
power(a, n) == <<RMul(a[1], n.q), RMul(a[2], n.q)>>
have_same_dimensions(a, b) == a = b

(***************************************************************************)
(* Expression trees: the ast node classes the three functions dispatch on. *)
(* A Compare node keeps its operands (left, comparators); the relational   *)
(* operators themselves are read by none of the three functions.  A Call   *)
(* keeps the callee's name (func.id), its positional arguments, and        *)
(* whether keywords, starargs or kwargs are present.                       *)
(***************************************************************************)
Num(n) == [kind |-> "Num", n |-> n]
Name(id) == [kind |-> "Name", id |-> id]
NameConstant(v) == [kind |-> "NameConstant", value |-> v]
BoolOp(op, values) == [kind |-> "BoolOp", op |-> op, values |-> values]
Compare(left, comparators) ==
    [kind |-> "Compare", left |-> left, comparators |-> comparators]
Call(func, args) ==
    [kind |-> "Call", func |-> func, args |-> args,
     keywords |-> FALSE, starargs |-> FALSE, kwargs |-> FALSE]
BinOp(op, left, right) == [kind |-> "BinOp", op |-> op, left |-> left, right |-> right]
UnaryOp(op, operand) == [kind |-> "UnaryOp", op |-> op, operand |-> operand]
\* a node of any other class (ast.Str, ast.Subscript, ...)
Str == [kind |-> "Str"]

(***************************************************************************)
(* Descriptors of the variable table.  A Variable carries dimensions,      *)
(* is_boolean, constant, scalar and the value get_value() returns.  A      *)
(* Function carries _arg_units (one entry per argument: None, bool or a    *)
(* unit), _return_unit (bool, a unit, an int, or a callable rule) and      *)
(* _returns_bool; has_units and has_returns_bool say whether the           *)
(* attributes exist (the code probes them with hasattr).                   *)
(***************************************************************************)
Variable(dimensions, is_boolean, constant, scalar, value) ==
    [type |-> "Variable", dimensions |-> dimensions, is_boolean |-> is_boolean,
     constant |-> constant, scalar |-> scalar, value |-> value]

AnyUnit == [tag |-> "None", dim |-> DIMENSIONLESS, rule |-> ""]
BoolUnit == [tag |-> "bool", dim |-> DIMENSIONLESS, rule |-> ""]
UnitOf(dim) == [tag |-> "Unit", dim |-> dim, rule |-> ""]
IntUnit == [tag |-> "int", dim |-> DIMENSIONLESS, rule |-> ""]
RuleUnit(rule) == [tag |-> "callable", dim |-> DIMENSIONLESS, rule |-> rule]

Function(has_units, arg_units, return_unit, has_returns_bool, returns_bool) ==
    [type |-> "Function", has_units |-> has_units, arg_units |-> arg_units,
     return_unit |-> return_unit, has_returns_bool |-> has_returns_bool,
     returns_bool |-> returns_bool]

\* the callable return units of the table: sqrt halves the exponents of its
\* argument, "first" returns the dimensions of its first argument
ApplyRule(rule, arg_units) ==
    IF rule = "sqrt"
    THEN power(arg_units[1], [q |-> <<1, 2>>, f |-> TRUE])
    ELSE arg_units[1]

(***************************************************************************)
(* The variable tables of the inputs.  Boolean variables are               *)
(* dimensionless, and a function returns bool exactly when _returns_bool   *)
(* is set.                                                                 *)
(***************************************************************************)
BaseTable ==
    [n \in {"x", "y", "z", "d", "b", "k", "kv",
            "ffix", "fbool", "sqrt", "hb", "flb", "fnou"} |->
        CASE n = "x" -> Variable(LENGTH, FALSE, FALSE, FALSE, PyInt(0))
          [] n = "y" -> Variable(LENGTH, FALSE, FALSE, FALSE, PyInt(0))
          [] n = "z" -> Variable(TIME, FALSE, FALSE, TRUE, PyInt(0))
          [] n = "d" -> Variable(DIMENSIONLESS, FALSE, FALSE, TRUE, PyInt(1))
          [] n = "b" -> Variable(DIMENSIONLESS, TRUE, FALSE, FALSE, PyInt(1))
          [] n = "k" -> Variable(DIMENSIONLESS, FALSE, TRUE, TRUE, PyInt(2))
          [] n = "kv" -> Variable(DIMENSIONLESS, FALSE, TRUE, FALSE, PyInt(2))
          [] n = "ffix" -> Function(TRUE, <<AnyUnit>>, UnitOf(LENGTH), TRUE, FALSE)
          [] n = "fbool" -> Function(TRUE, <<AnyUnit>>, BoolUnit, TRUE, TRUE)
          [] n = "sqrt" -> Function(TRUE, <<AnyUnit>>, RuleUnit("sqrt"), TRUE, FALSE)
          [] n = "hb" -> Function(TRUE, <<BoolUnit>>, IntUnit, TRUE, FALSE)
          [] n = "flb" -> Function(TRUE, <<UnitOf(LENGTH), BoolUnit>>, BoolUnit, TRUE, TRUE)
          [] n = "fnou" -> Function(FALSE, <<>>, IntUnit, FALSE, FALSE)]

\* the same table with a variable that is named True
ShadowTable ==
    [n \in DOMAIN BaseTable \cup {"True"} |->
        IF n = "True"
        THEN Variable(TIME, FALSE, TRUE, TRUE, PyInt(2))
        ELSE BaseTable[n]]

TableNames == {"base", "shadow"}
TableOf(name) == IF name = "base" THEN BaseTable ELSE ShadowTable

(***************************************************************************)
(* Results.  st is "ok" (the call returned val / dim), "err" (it raised    *)
(* the exception class err, with msg naming the raise statement) or "none" *)
(* (not called yet).  A dimension error also carries the 1-based argument  *)
(* number (idx) and the (rendered expression, dimensions) pairs (cite)     *)
(* its message is formatted from.                                          *)
(***************************************************************************)
BoolOk(v) == [st |-> "ok", val |-> v, err |-> "", msg |-> ""]
BoolErr(e, m) == [st |-> "err", val |-> FALSE, err |-> e, msg |-> m]
BoolNone == [st |-> "none", val |-> FALSE, err |-> "", msg |-> ""]

DimOk(d) == [st |-> "ok", dim |-> d, err |-> "", msg |-> "", idx |-> 0, cite |-> <<>>]
DimErr(e, m, i, c) ==
    [st |-> "err", dim |-> DIMENSIONLESS, err |-> e, msg |-> m, idx |-> i, cite |-> c]
DimNone ==
    [st |-> "none", dim |-> DIMENSIONLESS, err |-> "", msg |-> "", idx |-> 0, cite |-> <<>>]
\* an exception of one of the other two functions, propagating through
\* parse_expression_dimensions
Propagate(r) == DimErr(r.err, r.msg, 0, <<>>)

\* NodeRenderer().render_node(node): the text of the node
render_node(node) == <<"rendered", node>>
Cited(node, dim) == [e |-> render_node(node), d |-> dim]

\* the first index of a sequence of results that is not "ok", 0 if none
FirstErr(rs) ==
    LET bad == {i \in 1..Len(rs) : rs[i].st # "ok"}
    IN  IF bad = {} THEN 0 ELSE CHOOSE i \in bad : \A j \in bad : i <= j

(***************************************************************************)
(* is_boolean_expression                                                   *)
(***************************************************************************)
\* variant: a chain with a non-boolean operand answers False
BoolOpIsBoolean_ReturnsFalse(rs) ==
    LET bad == {i \in 1..Len(rs) : ~(rs[i].st = "ok" /\ rs[i].val)}
        i == CHOOSE i \in bad : \A j \in bad : i <= j
    IN  IF bad = {} THEN BoolOk(TRUE)
        ELSE IF rs[i].st = "err" THEN rs[i]
        ELSE BoolOk(FALSE)

\* all(is_boolean_expression(node) for node in expr.values): the generator
\* stops at the first operand that raises or is not boolean
BoolOpIsBoolean(rs) ==
    LET bad == {i \in 1..Len(rs) : ~(rs[i].st = "ok" /\ rs[i].val)}
        i == CHOOSE i \in bad : \A j \in bad : i <= j
    IN  IF bad = {} THEN BoolOk(TRUE)
        ELSE IF rs[i].st = "err" THEN rs[i]
        ELSE BoolErr("SyntaxError", "Expression ought to be boolean but is not")

NameConstantIsBoolean(value) ==
    IF value \in {"True", "False"}
    THEN BoolOk(TRUE)
    ELSE BoolErr("ValueError", "Do not know how to deal with value")

\* variant: an unknown identifier raises, as in the other two functions
NameIsBoolean_Strict(name, variables) ==
    IF name \in DOMAIN variables
    THEN IF variables[name].type = "Variable"
         THEN BoolOk(variables[name].is_boolean)
         ELSE BoolErr("AttributeError", "is_boolean")
    ELSE IF name \in {"True", "False"}
         THEN BoolOk(TRUE)
         ELSE BoolErr("KeyError", "Unknown identifier")

\* a Function descriptor has no is_boolean attribute
NameIsBoolean(name, variables) ==
    IF name \in DOMAIN variables
    THEN IF variables[name].type = "Variable"
         THEN BoolOk(variables[name].is_boolean)
         ELSE BoolErr("AttributeError", "is_boolean")
    ELSE BoolOk(name = "True" \/ name = "False")

CallIsBoolean(name, variables) ==
    IF name \in DOMAIN variables
       /\ variables[name].type = "Function"
       /\ variables[name].has_returns_bool
    THEN BoolOk(variables[name].returns_bool)
    ELSE BoolErr("SyntaxError", "Unknown function")

UnaryOpIsBoolean(op) == BoolOk(op = "Not")

RECURSIVE is_boolean_expression(_, _)
is_boolean_expression(expr, variables) ==
    CASE expr.kind = "BoolOp" ->
            BoolOpIsBoolean([i \in 1..Len(expr.values) |->
                                is_boolean_expression(expr.values[i], variables)])
      [] expr.kind = "NameConstant" -> NameConstantIsBoolean(expr.value)
      [] expr.kind = "Name" -> NameIsBoolean(expr.id, variables)
      [] expr.kind = "Call" -> CallIsBoolean(expr.func, variables)
      [] expr.kind = "Compare" -> BoolOk(TRUE)
      [] expr.kind = "UnaryOp" -> UnaryOpIsBoolean(expr.op)
      [] OTHER -> BoolOk(FALSE)

(***************************************************************************)
(* _get_value_from_expression                                              *)
(***************************************************************************)
NameValue(name, variables) ==
    IF name \in DOMAIN variables
    THEN IF ~(variables[name].type = "Variable" /\ variables[name].constant)
         THEN ValErr("SyntaxError", "Value is not constant")
         ELSE IF ~variables[name].scalar
              THEN ValErr("SyntaxError", "Value is not scalar")
              ELSE ValOk(variables[name].value)
    ELSE IF name \in {"True", "False"}
         THEN ValOk(IF name = "True" THEN PyFloat(1) ELSE PyFloat(0))
         ELSE ValErr("ValueError", "Unknown identifier")

NameConstantValue(value) ==
    IF value \in {"True", "False"}
    THEN ValOk(IF value = "True" THEN PyFloat(1) ELSE PyFloat(0))
    ELSE ValErr("ValueError", "Do not know how to deal with value")

\* the arithmetic of a binary operation on the two operand values
BinOpValue(op, left, right) ==
    CASE op = "Add" \/ op = "Sub" -> PyAdd(left, right)
      [] op = "Mult" -> PyMul(left, right)
      [] op = "Div" -> PyDiv(left, right)
      [] op = "Pow" -> PyPow(left, right)
      [] op = "Mod" -> PyMod(left, right)
      [] OTHER -> ValErr("SyntaxError", "Unsupported operation")

UnaryOpValue(op, v) ==
    IF op = "Not"
    THEN ValErr("SyntaxError", "Cannot determine the numerical value for a boolean operation")
    ELSE IF op = "USub"
         THEN ValOk(PyNeg(v))
         ELSE ValErr("SyntaxError", "Unknown unary operation")

RECURSIVE get_value_from_expression(_, _)
get_value_from_expression(expr, variables) ==
    CASE expr.kind = "Name" -> NameValue(expr.id, variables)
      [] expr.kind = "NameConstant" -> NameConstantValue(expr.value)
      [] expr.kind = "Num" -> ValOk(PyInt(expr.n))
      [] expr.kind = "BoolOp" ->
            ValErr("SyntaxError", "Cannot determine the numerical value for a boolean operation")
      [] expr.kind = "Compare" ->
            ValErr("SyntaxError", "Cannot determine the numerical value for a boolean operation")
      [] expr.kind = "Call" ->
            ValErr("SyntaxError", "Cannot determine the numerical value for a function call")
      [] expr.kind = "BinOp" ->
            LET left == get_value_from_expression(expr.left, variables)
                right == get_value_from_expression(expr.right, variables)
            IN  IF left.st # "ok" THEN left
                ELSE IF right.st # "ok" THEN right
                ELSE BinOpValue(expr.op, left.val, right.val)
      [] expr.kind = "UnaryOp" ->
            LET v == get_value_from_expression(expr.operand, variables)
            IN  IF v.st # "ok" THEN v ELSE UnaryOpValue(expr.op, v.val)
      [] OTHER -> ValErr("SyntaxError", "Unsupported operation")

(***************************************************************************)
(* parse_expression_dimensions                                             *)
(***************************************************************************)
NameConstantDimensions(value) ==
    IF value \in {"True", "False"}
    THEN DimOk(DIMENSIONLESS)
    ELSE DimErr("ValueError", "Do not know how to handle value", 0, <<>>)

NameDimensions(name, variables) ==
    IF name \in DOMAIN variables /\ variables[name].type = "Function"
    THEN DimErr("SyntaxError", "was used like a variable/constant, but it is a function",
                0, <<>>)
    ELSE IF name \in DOMAIN variables
         THEN DimOk(variables[name].dimensions)
         ELSE IF name \in {"True", "False"}
              THEN DimOk(DIMENSIONLESS)
              ELSE DimErr("KeyError", "Unknown identifier", 0, <<>>)

\* every operand is checked, in order; the result is a bool
BoolOpDimensions(rs) ==
    IF FirstErr(rs) # 0 THEN rs[FirstErr(rs)] ELSE DimOk(DIMENSIONLESS)

\* the first adjacent pair of subunits with different dimensions, 0 if none
FirstMismatch(subunits) ==
    LET bad == {i \in 1..(Len(subunits) - 1) :
                    ~have_same_dimensions(subunits[i].dim, subunits[i + 1].dim)}
    IN  IF bad = {} THEN 0 ELSE CHOOSE i \in bad : \A j \in bad : i <= j

\* subunits: the results of [expr.left] + expr.comparators, in order.  The
\* message renders expr.left and expr.comparators[0] whichever pair differs.
\* variant: only the first pair of the chain is compared
CompareDimensions_FirstPairOnly(expr, subunits) ==
    IF FirstErr(subunits) # 0 THEN subunits[FirstErr(subunits)]
    ELSE IF ~have_same_dimensions(subunits[1].dim, subunits[2].dim)
         THEN DimErr("DimensionMismatchError",
                     "Comparison of expressions with different units", 0,
                     <<Cited(expr.left, subunits[1].dim),
                       Cited(expr.comparators[1], subunits[2].dim)>>)
         ELSE DimOk(DIMENSIONLESS)

CompareDimensions(expr, subunits) ==
    LET i == FirstMismatch(subunits)
    IN  IF FirstErr(subunits) # 0 THEN subunits[FirstErr(subunits)]
        ELSE IF i # 0
             THEN DimErr("DimensionMismatchError",
                         "Comparison of expressions with different units", 0,
                         <<Cited(expr.left, subunits[i].dim),
                           Cited(expr.comparators[1], subunits[i + 1].dim)>>)
             ELSE DimOk(DIMENSIONLESS)

\* one round of the loop over zip(expr.args, func._arg_units)
\* variant: the TypeError names the 0-based position
ArgCheck_ZeroBased(expr, func, idx, argBool, argDims) ==
    LET expected_unit == func.arg_units[idx]
        arg == expr.args[idx]
    IN  IF expected_unit.tag = "None" THEN DimOk(DIMENSIONLESS)
        ELSE IF expected_unit.tag = "bool"
             THEN IF argBool[idx].st = "err" THEN Propagate(argBool[idx])
                  ELSE IF ~argBool[idx].val
                       THEN DimErr("TypeError", "was expected to be a boolean value",
                                   idx - 1, <<>>)
                       ELSE DimOk(DIMENSIONLESS)
             ELSE IF argDims[idx].st = "err" THEN argDims[idx]
                  ELSE IF ~have_same_dimensions(argDims[idx].dim, expected_unit.dim)
                       THEN DimErr("DimensionMismatchError",
                                   "does not have the correct units", idx,
                                   <<Cited(arg, argDims[idx].dim),
                                     Cited(arg, expected_unit.dim)>>)
                       ELSE DimOk(DIMENSIONLESS)

ArgCheck(expr, func, idx, argBool, argDims) ==
    LET expected_unit == func.arg_units[idx]
        arg == expr.args[idx]
    IN  IF expected_unit.tag = "None" THEN DimOk(DIMENSIONLESS)
        ELSE IF expected_unit.tag = "bool"
             THEN IF argBool[idx].st = "err" THEN Propagate(argBool[idx])
                  ELSE IF ~argBool[idx].val
                       THEN DimErr("TypeError", "was expected to be a boolean value",
                                   idx, <<>>)
                       ELSE DimOk(DIMENSIONLESS)
             ELSE IF argDims[idx].st = "err" THEN argDims[idx]
                  ELSE IF ~have_same_dimensions(argDims[idx].dim, expected_unit.dim)
                       THEN DimErr("DimensionMismatchError",
                                   "does not have the correct units", idx,
                                   <<Cited(arg, argDims[idx].dim),
                                     Cited(arg, expected_unit.dim)>>)
                       ELSE DimOk(DIMENSIONLESS)

\* the dimensions a call returns once its arguments passed the loop
ReturnDimensions(func, argDims) ==
    IF func.return_unit.tag = "bool" THEN DimOk(DIMENSIONLESS)
    ELSE IF func.return_unit.tag \in {"Unit", "int"}
         THEN DimOk(func.return_unit.dim)
         ELSE IF FirstErr(argDims) # 0 THEN argDims[FirstErr(argDims)]
              ELSE DimOk(ApplyRule(func.return_unit.rule,
                                   [i \in 1..Len(argDims) |-> argDims[i].dim]))

\* argBool[i], argDims[i]: is_boolean_expression and
\* parse_expression_dimensions of expr.args[i]
CallDimensions(expr, variables, argBool, argDims) ==
    IF expr.keywords THEN DimErr("ValueError", "Keyword arguments not supported", 0, <<>>)
    ELSE IF expr.starargs
    THEN DimErr("ValueError", "Variable number of arguments not supported", 0, <<>>)
    ELSE IF expr.kwargs THEN DimErr("ValueError", "Keyword arguments not supported", 0, <<>>)
    ELSE IF expr.func \notin DOMAIN variables
    THEN DimErr("SyntaxError", "Unknown function", 0, <<>>)
    ELSE LET func == variables[expr.func]
         IN  IF ~(func.type = "Function" /\ func.has_units)
             THEN DimErr("ValueError", "does not specify how it deals with units", 0, <<>>)
             ELSE IF Len(func.arg_units) # Len(expr.args)
             THEN DimErr("SyntaxError", "was called with the wrong number of parameters",
                         0, <<>>)
             ELSE LET checks == [idx \in 1..Len(expr.args) |->
                                    ArgCheck(expr, func, idx, argBool, argDims)]
                  IN  IF FirstErr(checks) # 0 THEN checks[FirstErr(checks)]
                      ELSE ReturnDimensions(func, argDims)

\* left, right: the dimensions of the operands; n: the result of
\* _get_value_from_expression(expr.right), read by the Pow branch only.
\* variant: the Mult and Div branches exchanged
BinOpDimensions_SwapMultDiv(expr, left, right, n) ==
    CASE expr.op \in {"Add", "Sub", "Mod"} ->
            IF ~have_same_dimensions(left, right)
            THEN DimErr("DimensionMismatchError", "Cannot determine units for", 0,
                        <<Cited(expr.left, left), Cited(expr.right, right)>>)
            ELSE DimOk(left)
      [] expr.op = "Mult" -> DimOk(divide(left, right))
      [] expr.op = "Div" -> DimOk(multiply(left, right))
      [] expr.op = "Pow" ->
            IF have_same_dimensions(left, DIMENSIONLESS)
               /\ have_same_dimensions(right, DIMENSIONLESS)
            THEN DimOk(DIMENSIONLESS)
            ELSE IF n.st = "err" THEN Propagate(n)
                 ELSE DimOk(power(left, n.val))
      [] OTHER -> DimErr("SyntaxError", "Unsupported operation", 0, <<>>)

BinOpDimensions(expr, left, right, n) ==
    CASE expr.op \in {"Add", "Sub", "Mod"} ->
            IF ~have_same_dimensions(left, right)
            THEN DimErr("DimensionMismatchError", "Cannot determine units for", 0,
                        <<Cited(expr.left, left), Cited(expr.right, right)>>)
            ELSE DimOk(left)
      [] expr.op = "Mult" -> DimOk(multiply(left, right))
      [] expr.op = "Div" -> DimOk(divide(left, right))
      [] expr.op = "Pow" ->
            IF have_same_dimensions(left, DIMENSIONLESS)
               /\ have_same_dimensions(right, DIMENSIONLESS)
            THEN DimOk(DIMENSIONLESS)
            ELSE IF n.st = "err" THEN Propagate(n)
                 ELSE DimOk(power(left, n.val))
      [] OTHER -> DimErr("SyntaxError", "Unsupported operation", 0, <<>>)

\* variant: not keeps the dimensions of its operand
UnaryOpDimensions_KeepsOperand(op, u) == DimOk(u)

UnaryOpDimensions(op, u) == IF op = "Not" THEN DimOk(DIMENSIONLESS) ELSE DimOk(u)

RECURSIVE parse_expression_dimensions(_, _)
parse_expression_dimensions(expr, variables) ==
    CASE expr.kind = "NameConstant" -> NameConstantDimensions(expr.value)
      [] expr.kind = "Name" -> NameDimensions(expr.id, variables)
      [] expr.kind = "Num" -> DimOk(DIMENSIONLESS)
      [] expr.kind = "BoolOp" ->
            BoolOpDimensions([i \in 1..Len(expr.values) |->
                                parse_expression_dimensions(expr.values[i], variables)])
      [] expr.kind = "Compare" ->
            LET subexprs == <<expr.left>> \o expr.comparators
            IN  CompareDimensions(expr,
                    [i \in 1..Len(subexprs) |->
                        parse_expression_dimensions(subexprs[i], variables)])
      [] expr.kind = "Call" ->
            CallDimensions(expr, variables,
                [i \in 1..Len(expr.args) |->
                    is_boolean_expression(expr.args[i], variables)],
                [i \in 1..Len(expr.args) |->
                    parse_expression_dimensions(expr.args[i], variables)])
      [] expr.kind = "BinOp" ->
            LET left == parse_expression_dimensions(expr.left, variables)
                right == parse_expression_dimensions(expr.right, variables)
            IN  IF left.st # "ok" THEN left
                ELSE IF right.st # "ok" THEN right
                ELSE BinOpDimensions(expr, left.dim, right.dim,
                                     get_value_from_expression(expr.right, variables))
      [] expr.kind = "UnaryOp" ->
            LET u == parse_expression_dimensions(expr.operand, variables)
            IN  IF u.st # "ok" THEN u ELSE UnaryOpDimensions(expr.op, u.dim)
      [] OTHER -> DimErr("SyntaxError", "Unsupported operation", 0, <<>>)

(***************************************************************************)
(* The expressions the functions are applied to.                           *)
(***************************************************************************)
Chains(S) == UNION {[1..n -> S] : n \in 2..MaxChain}

Nums == {Num(n) : n \in 0..MaxNum}
Leaves ==
    Nums
    \cup {Name(id) : id \in {"x", "y", "z", "d", "b", "k", "kv",
                             "True", "False", "u"}}
    \cup {NameConstant(v) : v \in {"True", "False", "None"}}
    \cup {Str}

BinOperators == {"Add", "Sub", "Mult", "Div", "Mod", "Pow", "FloorDiv"}
UnaryOperators == {"Not", "USub", "UAdd"}

LeafBinOps == {BinOp(op, l, r) : op \in BinOperators, l \in Leaves, r \in Leaves}
LeafUnaryOps == {UnaryOp(op, e) : op \in UnaryOperators, e \in Leaves}

\* operands of nested binary operations
Terms ==
    {Name("x"), Name("z"), Name("d"),
     BinOp("Mult", Name("x"), Name("y")), BinOp("Div", Name("x"), Name("z")),
     BinOp("Add", Name("x"), Name("z")), UnaryOp("USub", Name("x"))}
NestedBinOps == {BinOp(op, l, r) : op \in BinOperators, l \in Terms, r \in Terms}

\* exponents: literals, constants and non-constants, and their arithmetic
ExponentLeaves == Nums \cup {Name("k"), Name("d"), Name("z")}
Exponents ==
    ExponentLeaves
    \cup {BinOp(op, l, r) : op \in BinOperators, l \in ExponentLeaves, r \in ExponentLeaves}
    \cup {UnaryOp("USub", e) : e \in ExponentLeaves}
Powers ==
    {BinOp("Pow", a, e) : a \in {Name("x"), Name("z"), Name("d"), Num(2)},
                          e \in Exponents}

CompareOperands ==
    {Name("x"), Name("y"), Name("z"), Name("d"), Num(1), Name("u")}
Compares ==
    {Compare(c[1], SubSeq(c, 2, Len(c))) : c \in Chains(CompareOperands)}

BoolOperands ==
    {Name("b"), Name("d"), Name("True"), NameConstant("None"), Name("u"),
     Compare(Name("x"), <<Name("y")>>), Compare(Name("x"), <<Name("z")>>),
     Call("fbool", <<Name("x")>>), Call("g", <<Name("x")>>)}
BoolOps == {BoolOp(op, c) : op \in {"And", "Or"}, c \in Chains(BoolOperands)}

Arguments ==
    Leaves
    \cup {BinOp("Add", Name("x"), Name("z")), BinOp("Add", Name("x"), Name("y")),
          BinOp("Mult", Name("x"), Name("x")),
          Compare(Name("x"), <<Name("z")>>), Compare(Name("x"), <<Name("y")>>),
          Compare(Name("x"), <<Name("y"), Name("z")>>),
          BoolOp("And", <<Name("b"), Name("d")>>),
          BoolOp("And", <<Name("b"), Name("b")>>),
          BoolOp("Or", <<Name("b"), Compare(Name("x"), <<Name("z")>>)>>),
          UnaryOp("Not", Name("b")), UnaryOp("Not", Name("x")),
          UnaryOp("Not", BinOp("Add", Name("x"), Name("z"))),
          UnaryOp("USub", Name("x")),
          Call("fbool", <<Name("x")>>), Call("ffix", <<Name("x")>>),
          Call("fbool", <<BinOp("Add", Name("x"), Name("z"))>>),
          Call("g", <<Name("x")>>), Call("fnou", <<Name("x")>>)}
Callees == {"ffix", "fbool", "sqrt", "hb", "flb", "fnou", "g", "x"}
PairArguments ==
    {Name("x"), Name("z"), Name("b"), Name("d"), Name("u"),
     Compare(Name("x"), <<Name("z")>>), BoolOp("And", <<Name("b"), Name("d")>>),
     BinOp("Add", Name("x"), Name("z")), Call("g", <<Name("x")>>)}
PlainCalls ==
    {Call(f, <<a>>) : f \in Callees, a \in Arguments}
    \cup {Call(f, <<a1, a2>>) : f \in {"flb", "ffix", "hb"},
                                a1 \in PairArguments, a2 \in PairArguments}
    \cup {Call(f, <<>>) : f \in Callees}
Calls ==
    PlainCalls
    \cup {[Call(f, <<Name("x")>>) EXCEPT !.keywords = TRUE] : f \in Callees}
    \cup {[Call(f, <<Name("x")>>) EXCEPT !.starargs = TRUE] : f \in Callees}
    \cup {[Call(f, <<Name("x")>>) EXCEPT !.kwargs = TRUE] : f \in Callees}

NestedUnaryOps ==
    {UnaryOp(op, e) : op \in UnaryOperators,
                      e \in {BinOp("Add", Name("x"), Name("z")),
                             Compare(Name("x"), <<Name("z")>>),
                             Compare(Name("x"), <<Name("y")>>),
                             UnaryOp("Not", Name("x"))}}

Expressions ==
    Leaves \cup LeafBinOps \cup LeafUnaryOps \cup NestedBinOps \cup Powers
    \cup Compares \cup BoolOps \cup Calls \cup NestedUnaryOps

(***************************************************************************)
(* The state: an expression, the variable table in use (by name), and what *)
(* each of the three functions returned or raised for them.  The functions *)
(* are pure and independent entry points, so they are called in any order. *)
(***************************************************************************)
VARIABLES expr, table, isbool, value, unit

vars == <<expr, table, isbool, value, unit>>

\* the variables argument of the three functions
variables == TableOf(table)

Init ==
    /\ expr \in Expressions
    /\ table \in TableNames
    /\ isbool = BoolNone
    /\ value = ValNone
    /\ unit = DimNone

CallIsBooleanExpression ==
    /\ isbool.st = "none"
    /\ isbool' = is_boolean_expression(expr, variables)
    /\ UNCHANGED <<expr, table, value, unit>>

CallGetValueFromExpression ==
    /\ value.st = "none"
    /\ value' = get_value_from_expression(expr, variables)
    /\ UNCHANGED <<expr, table, isbool, unit>>

CallParseExpressionDimensions ==
    /\ unit.st = "none"
    /\ unit' = parse_expression_dimensions(expr, variables)
    /\ UNCHANGED <<expr, table, isbool, value>>

Next ==
    \/ CallIsBooleanExpression
    \/ CallGetValueFromExpression
    \/ CallParseExpressionDimensions

Spec == Init /\ [][Next]_vars

\* the arithmetic of the model covers every exponent the inputs produce
ArithmeticCovered == value.err # "Unmodelled" /\ unit.err # "Unmodelled"

(***************************************************************************)
(* Properties.  DimOf, BoolOf and ValueOf apply the three functions to a   *)
(* sub-expression of the input under the table of the state.               *)
(***************************************************************************)
DimOf(e) == parse_expression_dimensions(e, variables)
BoolOf(e) == is_boolean_expression(e, variables)
ValueOf(e) == get_value_from_expression(e, variables)

\* the operands of a comparison chain, c0 .. ck
ChainOf(e) == <<e.left>> \o e.comparators

\* C1: a binary operation whose operands have dimensions L and R returns L
\* for +, -, % when L = R and raises DimensionMismatchError when L # R,
\* returns multiply(L, R) for *, divide(L, R) for /, and raises the
\* unsupported-operation SyntaxError for every operator other than
\* +, -, %, *, /, **.
C1_BinaryOperationDimensions ==
    (unit.st # "none" /\ expr.kind = "BinOp"
        /\ DimOf(expr.left).st = "ok" /\ DimOf(expr.right).st = "ok") =>
    LET L == DimOf(expr.left).dim
        R == DimOf(expr.right).dim
    IN  CASE expr.op \in {"Add", "Sub", "Mod"} ->
                IF L = R
                THEN unit.st = "ok" /\ unit.dim = L
                ELSE unit.st = "err" /\ unit.err = "DimensionMismatchError"
          [] expr.op = "Mult" -> unit.st = "ok" /\ unit.dim = multiply(L, R)
          [] expr.op = "Div" -> unit.st = "ok" /\ unit.dim = divide(L, R)
          [] expr.op = "Pow" -> TRUE
          [] OTHER -> unit.st = "err" /\ unit.err = "SyntaxError"
                      /\ unit.msg = "Unsupported operation"

\* a quotient of two operands of different, non-trivial dimensions
C1_Witness ==
    /\ expr.kind = "BinOp" /\ expr.op = "Div"
    /\ unit.st = "ok"
    /\ DimOf(expr.left).dim = multiply(LENGTH, LENGTH)
    /\ DimOf(expr.right).dim = divide(LENGTH, TIME)
    /\ unit.dim = multiply(LENGTH, TIME)

\* l - r
PySub(l, r) == ValOk([q |-> RSub(l.q, r.q), f |-> l.f \/ r.f])

\* C2: the constant evaluator on a binary operation whose operands evaluate
\* to l and r returns l + r for +, l - r for -, l * r for *, l % r for
\* modulo and l ** r for power; it fails for an operator outside the
\* arithmetic ones (+, -, *, /, %, **) and whenever an operand is a
\* variable that is not constant.
NotConstant(e) ==
    /\ e.kind = "Name"
    /\ e.id \in DOMAIN variables
    /\ ~(variables[e.id].type = "Variable" /\ variables[e.id].constant)

C2_ConstantArithmetic ==
    (value.st # "none" /\ expr.kind = "BinOp") =>
    /\ (ValueOf(expr.left).st = "ok" /\ ValueOf(expr.right).st = "ok") =>
        LET l == ValueOf(expr.left).val
            r == ValueOf(expr.right).val
        IN  CASE expr.op = "Add" -> value = PyAdd(l, r)
              [] expr.op = "Sub" -> value = PySub(l, r)
              [] expr.op = "Mult" -> value = PyMul(l, r)
              [] expr.op = "Mod" -> value = PyMod(l, r)
              [] expr.op = "Pow" -> value = PyPow(l, r)
              [] expr.op = "Div" -> TRUE
              [] OTHER -> value.st = "err"
    /\ (NotConstant(expr.left) \/ NotConstant(expr.right)) => value.st = "err"

\* C3: for a ** e whose operands type-check: when both are dimensionless
\* the result is dimensionless, whether or not e is constant; otherwise,
\* when e reduces to the compile-time constant n, the result is
\* power(dim(a), n); otherwise the call raises.  The constant e reduces to
\* is the value of its arithmetic: ConstantOf subtracts for -.
Arithmetic(op, l, r) ==
    CASE op = "Add" -> PyAdd(l, r)
      [] op = "Sub" -> PySub(l, r)
      [] op = "Mult" -> PyMul(l, r)
      [] op = "Div" -> PyDiv(l, r)
      [] op = "Pow" -> PyPow(l, r)
      [] op = "Mod" -> PyMod(l, r)
      [] OTHER -> ValErr("SyntaxError", "Unsupported operation")

RECURSIVE ConstantOf(_)
ConstantOf(e) ==
    CASE e.kind = "BinOp" ->
            IF ConstantOf(e.left).st # "ok" THEN ConstantOf(e.left)
            ELSE IF ConstantOf(e.right).st # "ok" THEN ConstantOf(e.right)
            ELSE Arithmetic(e.op, ConstantOf(e.left).val, ConstantOf(e.right).val)
      [] e.kind = "UnaryOp" ->
            IF ConstantOf(e.operand).st # "ok" THEN ConstantOf(e.operand)
            ELSE UnaryOpValue(e.op, ConstantOf(e.operand).val)
      [] OTHER -> ValueOf(e)

C3_PowerDimensions ==
    (unit.st # "none" /\ expr.kind = "BinOp" /\ expr.op = "Pow"
        /\ DimOf(expr.left).st = "ok" /\ DimOf(expr.right).st = "ok") =>
    IF DimOf(expr.left).dim = DIMENSIONLESS /\ DimOf(expr.right).dim = DIMENSIONLESS
    THEN unit = DimOk(DIMENSIONLESS)
    ELSE IF ConstantOf(expr.right).st = "ok"
         THEN unit = DimOk(power(DimOf(expr.left).dim, ConstantOf(expr.right).val))
         ELSE unit.st = "err"

\* C4: a comparison chain whose operands all type-check returns
\* dimensionless when all operand dimensions are equal, and raises
\* DimensionMismatchError when some adjacent pair differs, whichever pair.
C4_ComparisonChain ==
    (unit.st # "none" /\ expr.kind = "Compare"
        /\ \A i \in 1..Len(ChainOf(expr)) : DimOf(ChainOf(expr)[i]).st = "ok") =>
    LET c == ChainOf(expr)
    IN  IF \A i \in 1..(Len(c) - 1) : DimOf(c[i]).dim = DimOf(c[i + 1]).dim
        THEN unit = DimOk(DIMENSIONLESS)
        ELSE unit.st = "err" /\ unit.err = "DimensionMismatchError"

\* a chain whose first pair agrees and whose second pair differs
C4_Witness ==
    /\ expr.kind = "Compare" /\ Len(expr.comparators) = 2
    /\ DimOf(expr.left).st = "ok" /\ DimOf(expr.left).dim = LENGTH
    /\ DimOf(expr.comparators[1]).st = "ok" /\ DimOf(expr.comparators[1]).dim = LENGTH
    /\ DimOf(expr.comparators[2]).st = "ok" /\ DimOf(expr.comparators[2]).dim = TIME
    /\ unit.st = "err" /\ unit.err = "DimensionMismatchError"

\* C5: on an and/or chain is_boolean_expression returns True when every
\* operand is boolean and never returns False; when not every operand is
\* boolean it raises, and what it raises is the SyntaxError unless the first
\* operand that is not boolean itself raised another error, which then
\* propagates.  On a comparison chain it returns True whatever the operands.
FirstNotBoolean(rs) ==
    LET bad == {i \in 1..Len(rs) : ~(rs[i].st = "ok" /\ rs[i].val)}
    IN  IF bad = {} THEN 0 ELSE CHOOSE i \in bad : \A j \in bad : i <= j

WellFormedCall(e) ==
    /\ e.kind = "Call"
    /\ ~e.keywords /\ ~e.starargs /\ ~e.kwargs
    /\ e.func \in DOMAIN variables
    /\ variables[e.func].type = "Function"
    /\ variables[e.func].has_units
    /\ Len(variables[e.func].arg_units) = Len(e.args)

\* argument j passes the check of its slot
ArgPasses(e, j) ==
    LET expected == variables[e.func].arg_units[j]
    IN  CASE expected.tag = "None" -> TRUE
          [] expected.tag = "bool" -> BoolOf(e.args[j]) = BoolOk(TRUE)
          [] OTHER -> DimOf(e.args[j]).st = "ok" /\ DimOf(e.args[j]).dim = expected.dim

\* the first argument that does not pass the check of its slot, 0 if none
FirstFailing(e) ==
    LET bad == {j \in 1..Len(e.args) : ~ArgPasses(e, j)}
    IN  IF bad = {} THEN 0 ELSE CHOOSE i \in bad : \A j \in bad : i <= j

\* C6: in a call that reaches its argument loop, when the first argument
\* that fails its check sits in a boolean slot at position i: if
\* is_boolean_expression returns False for it the call raises the TypeError
\* that names position i (1-based); if is_boolean_expression raises for it,
\* that error propagates in place of the TypeError.
C6_BooleanArgument ==
    (unit.st # "none" /\ WellFormedCall(expr) /\ FirstFailing(expr) # 0
        /\ variables[expr.func].arg_units[FirstFailing(expr)].tag = "bool") =>
    LET i == FirstFailing(expr)
        b == BoolOf(expr.args[i])
    IN  /\ unit.st = "err"
        /\ (b.st = "ok") => (unit.err = "TypeError" /\ unit.idx = i)
        /\ (b.st = "err") => (unit.err = b.err /\ unit.msg = b.msg /\ unit.idx = 0)

\* a non-boolean second argument after a first argument that passes
C6_Witness ==
    /\ WellFormedCall(expr) /\ FirstFailing(expr) = 2
    /\ variables[expr.func].arg_units[2].tag = "bool"
    /\ BoolOf(expr.args[2]) = BoolOk(FALSE)
    /\ unit.st = "err" /\ unit.err = "TypeError" /\ unit.idx = 2

\* C6 as stated: every argument in a boolean slot that is not a boolean
\* expression, whatever its shape, makes the call raise the TypeError that
\* names its position.
C6_AlwaysTypeError ==
    (unit.st # "none" /\ WellFormedCall(expr) /\ FirstFailing(expr) # 0
        /\ variables[expr.func].arg_units[FirstFailing(expr)].tag = "bool") =>
    (unit.st = "err" /\ unit.err = "TypeError" /\ unit.idx = FirstFailing(expr))

\* C7: when a comparison chain fails because the adjacent pair (ci, ci+1)
\* differs, the error cites ci with the dimensions of ci and ci+1 with the
\* dimensions of ci+1.
C7_MismatchNamesThePair ==
    (unit.st = "err" /\ unit.err = "DimensionMismatchError" /\ expr.kind = "Compare"
        /\ \A j \in 1..Len(ChainOf(expr)) : DimOf(ChainOf(expr)[j]).st = "ok") =>
    LET c == ChainOf(expr)
        bad == {j \in 1..(Len(c) - 1) : DimOf(c[j]).dim # DimOf(c[j + 1]).dim}
        i == CHOOSE i \in bad : \A j \in bad : i <= j
    IN  unit.cite = <<Cited(c[i], DimOf(c[i]).dim), Cited(c[i + 1], DimOf(c[i + 1]).dim)>>

\* the sub-expressions of a node: operands and call arguments
Children(e) ==
    CASE e.kind = "BinOp" -> {e.left, e.right}
      [] e.kind = "UnaryOp" -> {e.operand}
      [] e.kind = "BoolOp" -> {e.values[i] : i \in 1..Len(e.values)}
      [] e.kind = "Compare" -> {ChainOf(e)[i] : i \in 1..Len(ChainOf(e))}
      [] e.kind = "Call" -> {e.args[i] : i \in 1..Len(e.args)}
      [] OTHER -> {}

RECURSIVE Validates(_)
Validates(e) == DimOf(e).st = "ok" /\ \A c \in Children(e) : Validates(c)

\* C8: whenever parse_expression_dimensions returns a dimension for a tree
\* it also succeeds on every operand and every call argument of the tree.
C8_AllOrNothing == (unit.st = "ok") => \A c \in Children(expr) : Validates(c)

C10_UnknownIdentifier ==
    (expr.kind = "Name" /\ expr.id \notin DOMAIN variables) =>
    IF expr.id \notin {"True", "False"}
    THEN /\ isbool.st # "none" => isbool = BoolOk(FALSE)
         /\ unit.st # "none" =>
                (unit.st = "err" /\ unit.err = "KeyError"
                    /\ unit.msg = "Unknown identifier")
         /\ value.st # "none" =>
                (value.st = "err" /\ value.err = "ValueError"
                    /\ value.msg = "Unknown identifier")
    ELSE /\ isbool.st # "none" => isbool = BoolOk(TRUE)
         /\ unit.st # "none" => unit = DimOk(DIMENSIONLESS)
         /\ value.st # "none" =>
                value = ValOk(IF expr.id = "True" THEN PyFloat(1) ELSE PyFloat(0))

\* the three functions have been applied to an unknown identifier
C10_Witness ==
    /\ expr.kind = "Name" /\ expr.id \notin DOMAIN variables
    /\ expr.id \notin {"True", "False"}
    /\ isbool = BoolOk(FALSE)
    /\ unit.st = "err"
    /\ value.st = "err"

====
